---- MODULE Spec2Model ----
(***************************************************************************)
(* A model of the authentication / session lifecycle of                    *)
(* fastapi_authorization_logic: the JWT helpers (src/core/jwt.py), the two *)
(* Redis-backed stores (src/db/redis_cache.py), UserService and            *)
(* PostService (src/services) and the request handlers                     *)
(* (src/api/v1/resources).  Every handler is one atomic action: requests   *)
(* run one after another in specification Spec.                            *)
(*                                                                         *)
(* Time is counted in ticks of MinutesPerTick minutes.  A jti (uuid4 in    *)
(* the code) is a fresh natural number drawn from the counter nextJti.     *)
(* A token is the record of its claims plus a flag sig telling whether its *)
(* signature verifies under JWT_SECRET_KEY.                                *)
(***************************************************************************)
EXTENDS Naturals, Sequences, FiniteSets, TLC

\* ------------------------------------------------------------------ bounds
MaxTime == 2
MaxJti == 4
MaxPosts == 1
MinutesPerTick == 15

UUIDOrder == <<"u1", "u2">>
UUIDs == {UUIDOrder[i] : i \in 1..Len(UUIDOrder)}
Names == {"alice", "bob"}
Emails == {"a@x.io", "b@x.io"}
Passwords == {"pw1"}
WrongPassword == "pw2"
None == "None"

\* --------------------------------------------------------- configuration
\* src/core/config.py is not part of the sources at hand: the values follow
\* the specification (access tokens live 15 minutes; a blocklist entry
\* lives as long as an access token does).
ACCESS_TOKEN_EXPIRE_MINUTES == 15
CACHE_EXPIRE_IN_SECONDS == 900
RefreshDays == 30

\* a duration in ticks, rounded up
Ticks(minutes) == (minutes + MinutesPerTick - 1) \div MinutesPerTick

AccessTTL == Ticks(ACCESS_TOKEN_EXPIRE_MINUTES)
CacheTTL == Ticks(CACHE_EXPIRE_IN_SECONDS \div 60)
RefreshTTL == Ticks(RefreshDays * 24 * 60)

VARIABLES
    users,       \* the user table: uuid -> row
    registry,    \* active_refresh_tokens: uuid -> Redis list of refresh jtis
    blocklist,   \* blocked_access_tokens: set of [key, exp] entries
    now,         \* the clock, in ticks
    nextJti,     \* the next fresh jti
    issued,      \* the tokens handed out to clients so far
    posts,       \* number of rows of the post table
    refreshed,   \* history: the tokens a /refresh request has succeeded with
    last,        \* the last request and the outcome of its response
    race         \* the requests in flight whose store calls interleave
                 \* (specification SpecRace; none in Spec)

vars == <<users, registry, blocklist, now, nextJti, issued, posts, refreshed,
          last, race>>

\* The server's state as one record: what the handlers read and write.
Cur == [users |-> users, registry |-> registry, blocklist |-> blocklist,
        now |-> now, nextJti |-> nextJti, posts |-> posts]

\* ------------------------------------------------------------------ tokens
NoToken ==
    [type |-> "none", jti |-> 0, uuid |-> None, username |-> None,
     refresh_jti |-> 0, exp |-> 0, sig |-> FALSE]

\* A string that is no JWT at all.
Garbage ==
    [type |-> "garbage", jti |-> 0, uuid |-> None, username |-> None,
     refresh_jti |-> 0, exp |-> 0, sig |-> FALSE]

\* A token whose claims are those of t and whose signature does not verify.
Forge(t) == [t EXCEPT !.sig = FALSE]

create_access_token(data, refresh_jti, jti, time_now) ==
    [type |-> "access", jti |-> jti, uuid |-> data.uuid,
     username |-> data.username, refresh_jti |-> refresh_jti,
     exp |-> time_now + AccessTTL, sig |-> TRUE]

create_refresh_token(user_uuid, jti, time_now) ==
    [type |-> "refresh", jti |-> jti, uuid |-> user_uuid, username |-> None,
     refresh_jti |-> 0, exp |-> time_now + RefreshTTL, sig |-> TRUE]

\* Decodes, were the expiry claim not verified.
Decodes_ignores_exp(t, time_now) ==
    /\ t.type \in {"access", "refresh"}
    /\ t.sig

\* jwt.decode(token, JWT_SECRET_KEY, algorithms=[JWT_ALGORITHM]) returns the
\* payload iff the token is well formed, its signature verifies and it has
\* not expired; otherwise it raises a PyJWTError.
Decodes(t, time_now) ==
    /\ t.type \in {"access", "refresh"}
    /\ t.sig
    /\ time_now < t.exp

\* ------------------------------------------------------ password hashing
get_password_hash(password) == <<"hash", password>>
verify_password(password, hashed) == get_password_hash(password) = hashed

\* ------------------------------------------------------------- user table
NoRow == [exists |-> FALSE, username |-> None, email |-> None,
          hashed_password |-> <<"hash", None>>]

\* UserModel(**user.dict()): the fields of a row that go into a token.
UserData(db, u) == [uuid |-> u, username |-> db[u].username]

get_by_username(db, username) ==
    {u \in UUIDs : db[u].exists /\ db[u].username = username}

get_by_uuid(db, uuid) ==
    {u \in UUIDs : db[u].exists /\ u = uuid}

\* UniqueConstraint("username"), UniqueConstraint("email")
Unique(db) ==
    \A u, v \in UUIDs :
        (u # v /\ db[u].exists /\ db[v].exists) =>
            /\ db[u].username # db[v].username
            /\ db[u].email # db[v].email

\* authenticate, were the password not verified.
authenticate_no_password(db, username, password) ==
    get_by_username(db, username)

authenticate(db, username, password) ==
    LET found == get_by_username(db, username) IN
    IF found = {} THEN {}
    ELSE {u \in found : verify_password(password, db[u].hashed_password)}

\* --------------------------------------------------------- Redis list store
RECURSIVE LPush(_, _)
\* lpush(key, *values): each value in turn becomes the new head
LPush(list, values) ==
    IF values = <<>> THEN list
    ELSE LPush(<<Head(values)>> \o list, Tail(values))

Elems(list) == {list[i] : i \in 1..Len(list)}

\* list.index(x), for x in list
Index(list, x) == CHOOSE i \in 1..Len(list) : list[i] = x /\ \A j \in 1..(i-1) : list[j] # x

\* list.pop(i)
Pop(list, i) == SubSeq(list, 1, i - 1) \o SubSeq(list, i + 1, Len(list))

\* CacheRefreshTkns.add / get / clean on the list under one key
CacheAdd(reg, key, values) == [reg EXCEPT ![key] = LPush(reg[key], values)]
CacheGet(reg, key) == reg[key]
CacheClean(reg, key) == [reg EXCEPT ![key] = <<>>]

\* ---------------------------------------------------------- the blocklist
JtiKey(jti) == [kind |-> "jti", id |-> jti]
\* the whole encoded token used as a key; a token is identified by its jti
TokenKey(t) == [kind |-> "jwt", id |-> t.jti]

\* CacheRedis.get: an entry that has expired is gone
BlockGet(blk, key, time_now) ==
    \E e \in blk : e.key = key /\ time_now < e.exp

\* BlockSet, were the entry written with a ttl that has run out at once.
BlockSet_expires_at_once(blk, key, time_now) ==
    {e \in blk : e.key # key} \cup {[key |-> key, exp |-> time_now]}

\* CacheRedis.set(key, "blocked", ex=CACHE_EXPIRE_IN_SECONDS)
BlockSet(blk, key, time_now) ==
    {e \in blk : e.key # key} \cup {[key |-> key, exp |-> time_now + CacheTTL]}

\* check_block_token, were the blocklist never consulted.
check_block_token_never(blk, jti, time_now) == FALSE

check_block_token(blk, jti, time_now) == BlockGet(blk, JtiKey(jti), time_now)

block_access_token(blk, key, time_now) == BlockSet(blk, key, time_now)

\* ----------------------------------------------------------- UserService
\* add_refresh_token, were a jti other than the token's pushed.
add_refresh_token_wrong_jti(reg, token) ==
    CacheAdd(reg, token.uuid, <<token.jti + 1>>)

add_refresh_token(reg, token) == CacheAdd(reg, token.uuid, <<token.jti>>)

\* current_tokens.index(jti) raises ValueError when jti is not in the list
RemoveRaises(reg, uuid, jti) == jti \notin Elems(CacheGet(reg, uuid))

\* remove_refresh_token, were the list cleaned and not written back.
remove_refresh_token_drops_all(reg, uuid, jti) == CacheClean(reg, uuid)

\* remove_refresh_token, were the last entry popped whatever the jti.
remove_refresh_token_pops_last(reg, uuid, jti) ==
    LET current_tokens == CacheGet(reg, uuid)
        rest == Pop(current_tokens, Len(current_tokens))
        cleaned == CacheClean(reg, uuid)
    IN  IF rest # <<>> THEN CacheAdd(cleaned, uuid, rest) ELSE cleaned

remove_refresh_token(reg, uuid, jti) ==
    LET current_tokens == CacheGet(reg, uuid)
        rest == Pop(current_tokens, Index(current_tokens, jti))
        cleaned == CacheClean(reg, uuid)
    IN  IF rest # <<>> THEN CacheAdd(cleaned, uuid, rest) ELSE cleaned

remove_all_refresh_tokens(reg, uuid) == CacheClean(reg, uuid)

check_refresh_token(reg, uuid, jti) == jti \in Elems(CacheGet(reg, uuid))

\* UserService.get_current_user: the outcome, "ok" when the user is returned
get_current_user(S, token) ==
    IF ~Decodes(token, S.now) THEN "500 PyJWTError"
    ELSE IF check_block_token(S.blocklist, token.jti, S.now) THEN "401 Token was blocked"
    ELSE IF token.type # "access" THEN "500 ValidationError"
    ELSE IF get_by_username(S.users, token.username) = {} THEN "404 User not found"
    ELSE "ok"

\* the user get_current_user returns
CurrentUser(S, token) == CHOOSE u \in get_by_username(S.users, token.username) : TRUE

\* UserService.update_user: the table after the commit
update_user(db, u, new_username, new_email) ==
    [db EXCEPT ![u] = [@ EXCEPT
        !.username = IF new_username # None THEN new_username ELSE @,
        !.email = IF new_email # None THEN new_email ELSE @]]

\* UserService.create_user: the table after the commit; the new row gets
\* the first uuid not in use
create_user(db, username, email, password) ==
    LET i == CHOOSE k \in 1..Len(UUIDOrder) :
                 /\ ~db[UUIDOrder[k]].exists
                 /\ \A j \in 1..(k-1) : db[UUIDOrder[j]].exists
    IN  [db EXCEPT ![UUIDOrder[i]] =
             [exists |-> TRUE, username |-> username, email |-> email,
              hashed_password |-> get_password_hash(password)]]

\* ----------------------------------------------------------- PostService
\* PostService.check_jwt: the outcome, "ok" when it returns
check_jwt(S, token) ==
    IF ~Decodes(token, S.now) THEN "403 Could not validate credentials"
    ELSE IF check_block_token(S.blocklist, token.jti, S.now) THEN "403 Token was blocked"
    ELSE "ok"

\* ---------------------------------------------------------------- handlers
\* A handler maps the server's state S and the request to the state it
\* leaves (st), the outcome of the response (out) and the tokens the
\* response carries (ret).
Res(S, out, ret) == [st |-> S, out |-> out, ret |-> ret]

\* POST /signup
user_create(S, username, email, password) ==
    LET db == create_user(S.users, username, email, password) IN
    IF Unique(db) THEN Res([S EXCEPT !.users = db], "ok", {})
    ELSE Res(S, "500 IntegrityError", {})

\* POST /login
login(S, username, password) ==
    LET user == authenticate(S.users, username, password) IN
    IF user = {} THEN Res(S, "400 wrong username or password", {})
    ELSE LET u == CHOOSE v \in user : TRUE
             refresh_token == create_refresh_token(u, S.nextJti, S.now)
             refresh_jti == refresh_token.jti
             access_token == create_access_token(UserData(S.users, u), refresh_jti,
                                                 S.nextJti + 1, S.now)
         IN  Res([S EXCEPT !.registry = add_refresh_token(@, refresh_token),
                           !.nextJti = @ + 2],
                 "ok", {access_token, refresh_token})

\* POST /logout
logout(S, token) ==
    IF ~Decodes(token, S.now) THEN Res(S, "500 PyJWTError", {})
    ELSE IF token.type # "access" THEN Res(S, "500 KeyError", {})
    ELSE LET S1 == [S EXCEPT !.blocklist =
                        block_access_token(@, JtiKey(token.jti), S.now)]
         IN  IF RemoveRaises(S1.registry, token.uuid, token.refresh_jti)
             THEN Res(S1, "500 ValueError", {})
             ELSE Res([S1 EXCEPT !.registry =
                          remove_refresh_token(@, token.uuid, token.refresh_jti)],
                      "ok", {})

\* POST /logout_all
logout_all(S, token) ==
    IF ~Decodes(token, S.now) THEN Res(S, "500 PyJWTError", {})
    ELSE Res([S EXCEPT !.blocklist = block_access_token(@, JtiKey(token.jti), S.now),
                       !.registry = remove_all_refresh_tokens(@, token.uuid)],
             "ok", {})

\* POST /refresh
refresh_token(S, token) ==
    IF ~Decodes(token, S.now)
    THEN Res(S, "403 could not validate credentials", {})
    ELSE IF RemoveRaises(S.registry, token.uuid, token.jti)
    THEN Res(S, "500 ValueError", {})
    ELSE LET S1 == [S EXCEPT !.registry =
                        remove_refresh_token(@, token.uuid, token.jti)]
         IN  IF get_by_uuid(S1.users, token.uuid) = {}
             THEN Res(S1, "500 AttributeError", {})
             ELSE LET new_refresh == create_refresh_token(token.uuid, S1.nextJti, S1.now)
                      refresh_jti == new_refresh.jti
                      access_token == create_access_token(
                                          UserData(S1.users, token.uuid),
                                          refresh_jti, S1.nextJti + 1, S1.now)
                  IN  Res([S1 EXCEPT !.nextJti = @ + 2], "ok",
                          {access_token, new_refresh})

\* update_user_me, were the user's sessions cleared as on logout_all.
update_user_me_clears_sessions(S, token, new_username, new_email) ==
    LET out == get_current_user(S, token) IN
    IF out # "ok" THEN Res(S, out, {})
    ELSE LET u == CurrentUser(S, token)
             db == update_user(S.users, u, new_username, new_email)
         IN  IF ~Unique(db) THEN Res(S, "500 IntegrityError", {})
             ELSE Res([S EXCEPT !.users = db,
                                !.registry = remove_all_refresh_tokens(@, u),
                                !.blocklist =
                                    block_access_token(@, TokenKey(token), S.now),
                                !.nextJti = @ + 2],
                      "ok",
                      {create_access_token(UserData(db, u), S.nextJti,
                                           S.nextJti + 1, S.now)})

\* PATCH /users/me
update_user_me(S, token, new_username, new_email) ==
    LET out == get_current_user(S, token) IN
    IF out # "ok" THEN Res(S, out, {})
    ELSE LET u == CurrentUser(S, token)
             db == update_user(S.users, u, new_username, new_email)
         IN  IF ~Unique(db) THEN Res(S, "500 IntegrityError", {})
             ELSE LET new_refresh == create_refresh_token(u, S.nextJti, S.now)
                      refresh_jti == new_refresh.jti
                      access_token == create_access_token(UserData(db, u), refresh_jti,
                                                          S.nextJti + 1, S.now)
                  IN  Res([S EXCEPT !.users = db,
                                    !.blocklist =
                                        block_access_token(@, TokenKey(token), S.now),
                                    !.nextJti = @ + 2],
                          "ok", {access_token})

\* GET /users/me
read_user_me(S, token) == Res(S, get_current_user(S, token), {})

\* POST /posts/
post_create(S, token) ==
    LET out == check_jwt(S, token) IN
    IF out # "ok" THEN Res(S, out, {})
    ELSE Res([S EXCEPT !.posts = @ + 1], "ok", {})

\* ------------------------------------------------------------ the machine
\* What a client can present as a bearer token: a token it was given, one
\* of the first two tokens with its signature broken, or a non-token.
Forged == {Forge(t) : t \in {s \in issued : s.jti <= 2}}
Presentable == issued \cup Forged \cup {Garbage}

\* no request is in flight: every request is served in one step
NoRace == [init |-> <<>>, proc |-> <<>>]

Init ==
    /\ users = [u \in UUIDs |-> NoRow]
    /\ registry = [u \in UUIDs |-> <<>>]
    /\ blocklist = {}
    /\ now = 0
    /\ nextJti = 1
    /\ issued = {}
    /\ posts = 0
    /\ refreshed = {}
    /\ last = [op |-> "start", out |-> "ok"]
    /\ race = NoRace

\* The request op is served with result r.
Serve(op, r) ==
    /\ r.st.nextJti <= MaxJti + 1
    /\ r.st.posts <= MaxPosts
    /\ users' = r.st.users
    /\ registry' = r.st.registry
    /\ blocklist' = r.st.blocklist
    /\ now' = r.st.now
    /\ nextJti' = r.st.nextJti
    /\ posts' = r.st.posts
    /\ issued' = issued \cup r.ret
    /\ last' = [op |-> op, out |-> r.out]
    /\ UNCHANGED race

Signup ==
    /\ \E u \in UUIDs : ~users[u].exists
    /\ \E n \in Names, e \in Emails, p \in Passwords :
           Serve("signup", user_create(Cur, n, e, p))
    /\ UNCHANGED refreshed

Login ==
    /\ \E n \in Names, p \in Passwords \cup {WrongPassword} :
           Serve("login", login(Cur, n, p))
    /\ UNCHANGED refreshed

Logout ==
    /\ \E t \in Presentable : Serve("logout", logout(Cur, t))
    /\ UNCHANGED refreshed

LogoutAll ==
    /\ \E t \in Presentable : Serve("logout_all", logout_all(Cur, t))
    /\ UNCHANGED refreshed

Refresh ==
    \E t \in Presentable :
        LET r == refresh_token(Cur, t) IN
        /\ Serve("refresh", r)
        /\ refreshed' = IF r.out = "ok" THEN refreshed \cup {t} ELSE refreshed

\* The patch is read only once the token has passed get_current_user, so
\* the patches are enumerated for those tokens alone.
UpdateUserMe ==
    /\ \E t \in Presentable :
           IF get_current_user(Cur, t) # "ok"
           THEN Serve("update_user_me", update_user_me(Cur, t, None, None))
           ELSE \E n \in Names \cup {None}, e \in Emails \cup {None} :
                    Serve("update_user_me", update_user_me(Cur, t, n, e))
    /\ UNCHANGED refreshed

ReadUserMe ==
    /\ \E t \in Presentable : Serve("read_user_me", read_user_me(Cur, t))
    /\ UNCHANGED refreshed

PostCreate ==
    /\ \E t \in Presentable : Serve("post_create", post_create(Cur, t))
    /\ UNCHANGED refreshed

\* Time passes; Redis drops the entries whose ttl has run out.
Tick ==
    /\ now < MaxTime
    /\ now' = now + 1
    /\ blocklist' = {e \in blocklist : now + 1 < e.exp}
    /\ last' = [op |-> "tick", out |-> "ok"]
    /\ UNCHANGED <<users, registry, nextJti, issued, posts, refreshed, race>>

Next ==
    \/ Signup
    \/ Login
    \/ Logout
    \/ LogoutAll
    \/ Refresh
    \/ UpdateUserMe
    \/ ReadUserMe
    \/ PostCreate
    \/ Tick

Spec == Init /\ [][Next]_vars

\* --------------------------------------------- requests that interleave
\* Specification SpecRace: two requests of one user are in flight at once
\* and each call they make on the Redis list is one step.  It starts in
\* the state Spec is in after a signup and k logins on k devices.
MaxDevices == 3
RaceUser == UUIDOrder[1]

\* the registry list after k logins: the refresh jtis 2k-1, ..., 3, 1
LoggedIn(k) == [i \in 1..k |-> 2 * (k - i) + 1]

\* A request in flight: the service call it makes (kind, jti), where it is
\* (pc), its locals (n: list_len or the pops left; cur: current_tokens
\* as read; rest: current_tokens after the pop) and, as history, the list
\* its first store call met (start).
Proc(kind, jti, pc) ==
    [kind |-> kind, jti |-> jti, pc |-> pc, n |-> 0, cur |-> <<>>,
     rest |-> <<>>, start |-> <<>>]
RemoveCall(jti) == Proc("remove", jti, "get_llen")
AddCall(jti) == Proc("add", jti, "lpush")
CleanCall == Proc("clean", 0, "clean_llen")

\* The pairs of concurrent requests: a logout against a login, two
\* logouts of two devices, a logout_all against a login.
Scenarios(k) ==
    LET list == LoggedIn(k)
        fresh == 2 * k + 1
    IN  {<<RemoveCall(a), AddCall(fresh)>> : a \in Elems(list)}
        \cup {<<RemoveCall(c[1]), RemoveCall(c[2])>> :
                  c \in {d \in Elems(list) \X Elems(list) : d[1] # d[2]}}
        \cup {<<CleanCall, AddCall(fresh)>>}

RaceInit ==
    \E k \in 1..MaxDevices :
        /\ users = [u \in UUIDs |->
                       IF u = RaceUser
                       THEN [exists |-> TRUE, username |-> "alice",
                             email |-> "a@x.io",
                             hashed_password |-> get_password_hash("pw1")]
                       ELSE NoRow]
        /\ registry = [u \in UUIDs |-> IF u = RaceUser THEN LoggedIn(k) ELSE <<>>]
        /\ blocklist = {}
        /\ now = 0
        /\ nextJti = 2 * k + 1
        /\ issued = UNION {{create_refresh_token(RaceUser, 2 * i - 1, 0),
                            create_access_token(UserData(users, RaceUser),
                                                2 * i - 1, 2 * i, 0)} :
                                i \in 1..k}
        /\ posts = 0
        /\ refreshed = {}
        /\ last = [op |-> "login", out |-> "ok"]
        /\ \E sc \in Scenarios(k) : race = [init |-> LoggedIn(k), proc |-> sc]

RaceFrame == UNCHANGED <<users, blocklist, now, nextJti, issued, posts, refreshed, last>>

SetProc(i, q) == race' = [race EXCEPT !.proc[i] = q]
SetList(list) == registry' = [registry EXCEPT ![RaceUser] = list]

Min(a, b) == IF a < b THEN a ELSE b

\* where a request goes once the list is cleaned
AfterClean(q) == IF q.kind = "remove" /\ q.rest # <<>> THEN "lpush" ELSE "done"

\* CacheRefreshTkns.get, first call: list_len = llen(key)
RaceGetLlen(i) ==
    LET q == race.proc[i] IN
    /\ q.pc = "get_llen"
    /\ SetProc(i, [q EXCEPT !.n = Len(registry[RaceUser]),
                            !.start = registry[RaceUser],
                            !.pc = "get_lrange"])
    /\ UNCHANGED registry
    /\ RaceFrame

\* CacheRefreshTkns.get, second call: lrange(key, 0, list_len); then
\* current_tokens.pop(current_tokens.index(jti)), which raises ValueError
\* when the jti is not in what was read
RaceGetLrange(i) ==
    LET q == race.proc[i]
        list == registry[RaceUser]
        current_tokens == SubSeq(list, 1, Min(q.n + 1, Len(list)))
    IN  /\ q.pc = "get_lrange"
        /\ IF q.jti \notin Elems(current_tokens)
           THEN SetProc(i, [q EXCEPT !.cur = current_tokens, !.pc = "raised"])
           ELSE SetProc(i, [q EXCEPT !.cur = current_tokens,
                                    !.rest = Pop(current_tokens,
                                                 Index(current_tokens, q.jti)),
                                    !.pc = "clean_llen"])
        /\ UNCHANGED registry
        /\ RaceFrame

\* CacheRefreshTkns.clean, first call: list_len = llen(key)
RaceCleanLlen(i) ==
    LET q == race.proc[i]
        len == Len(registry[RaceUser])
        q1 == [q EXCEPT !.n = len,
                        !.start = IF q.kind = "clean" THEN registry[RaceUser] ELSE @]
    IN  /\ q.pc = "clean_llen"
        /\ SetProc(i, [q1 EXCEPT !.pc = IF len = 0 THEN AfterClean(q) ELSE "clean_lpop"])
        /\ UNCHANGED registry
        /\ RaceFrame

\* CacheRefreshTkns.clean, one turn of the loop: lpop(key)
RaceCleanLpop(i) ==
    LET q == race.proc[i]
        list == registry[RaceUser]
    IN  /\ q.pc = "clean_lpop"
        /\ SetList(IF list = <<>> THEN <<>> ELSE Tail(list))
        /\ SetProc(i, [q EXCEPT !.n = q.n - 1,
                                !.pc = IF q.n = 1 THEN AfterClean(q) ELSE "clean_lpop"])
        /\ RaceFrame

\* CacheRefreshTkns.add: lpush(key, *values), the jti of a login or the
\* rest of the list remove_refresh_token writes back
RaceLpush(i) ==
    LET q == race.proc[i]
        values == IF q.kind = "add" THEN <<q.jti>> ELSE q.rest
    IN  /\ q.pc = "lpush"
        /\ SetList(LPush(registry[RaceUser], values))
        /\ SetProc(i, [q EXCEPT !.pc = "done",
                                !.start = IF q.kind = "add" THEN registry[RaceUser] ELSE @])
        /\ RaceFrame

RaceNext ==
    \E i \in 1..2 :
        \/ RaceGetLlen(i)
        \/ RaceGetLrange(i)
        \/ RaceCleanLlen(i)
        \/ RaceCleanLpop(i)
        \/ RaceLpush(i)

SpecRace == RaceInit /\ [][RaceNext]_vars

\* ------------------------------------------------- a user row disappears
\* The user table lives in a database the service shares with whatever
\* else writes to it; get_by_uuid returns Optional[User], None when the
\* row of a token's user is no longer there.  The specification below
\* starts with one user signed up and lets the row be deleted while the
\* tokens and the Redis lists stay as they are.
OrphanInit ==
    /\ users = [u \in UUIDs |->
                   IF u = UUIDOrder[1]
                   THEN [exists |-> TRUE, username |-> "alice",
                         email |-> "a@x.io",
                         hashed_password |-> get_password_hash("pw1")]
                   ELSE NoRow]
    /\ registry = [u \in UUIDs |-> <<>>]
    /\ blocklist = {}
    /\ now = 0
    /\ nextJti = 1
    /\ issued = {}
    /\ posts = 0
    /\ refreshed = {}
    /\ last = [op |-> "signup", out |-> "ok"]
    /\ race = NoRace

DropUser ==
    /\ \E u \in UUIDs :
           /\ users[u].exists
           /\ users' = [users EXCEPT ![u] = NoRow]
    /\ last' = [op |-> "drop_user", out |-> "ok"]
    /\ UNCHANGED <<registry, blocklist, now, nextJti, issued, posts,
                   refreshed, race>>

OrphanNext ==
    \/ Login
    \/ Logout
    \/ Refresh
    \/ Tick
    \/ DropUser

SpecOrphan == OrphanInit /\ [][OrphanNext]_vars

TypeOK ==
    /\ now \in 0..MaxTime
    /\ nextJti \in 1..(MaxJti + 1)
    /\ posts \in 0..MaxPosts
    /\ Unique(users)
    /\ \A t \in issued : t.sig /\ t.jti < nextJti

\* ------------------------------------------------------------- properties
\* Facts about a state, read off the variables and not through the
\* operators that model the code.
Live(t) == t.type \in {"access", "refresh"} /\ t.sig /\ now < t.exp
HasBlockEntry(blk, jti, time_now) ==
    \E e \in blk : e.key.kind = "jti" /\ e.key.id = jti /\ time_now < e.exp
InList(reg, uuid, jti) == \E i \in 1..Len(reg[uuid]) : reg[uuid][i] = jti
Count(list, x) == Cardinality({i \in 1..Len(list) : list[i] = x})
KnownName(n) == \E u \in UUIDs : users[u].exists /\ users[u].username = n
LoginInputs == Names \X (Passwords \cup {WrongPassword})
GoodLogin(n, p) ==
    \E u \in UUIDs : /\ users[u].exists /\ users[u].username = n
                     /\ users[u].hashed_password = <<"hash", p>>
BadCredentials == "400 wrong username or password"

\* C1: every successful login (the username exists and the password matches
\* its digest) returns one access and one refresh token, the access token's
\* refresh_jti is the refresh token's jti, and after the login that jti is
\* in the registry list under the user's uuid.
C1_LoginCorrelatesAndRegisters ==
    \A cred \in LoginInputs :
        GoodLogin(cred[1], cred[2]) =>
            LET r == login(Cur, cred[1], cred[2]) IN
            /\ r.out = "ok"
            /\ \E a, f \in r.ret :
                   /\ r.ret = {a, f}
                   /\ a.type = "access" /\ f.type = "refresh"
                   /\ a.refresh_jti = f.jti
                   /\ users[f.uuid].exists /\ users[f.uuid].username = cred[1]
                   /\ a.uuid = f.uuid
                   /\ InList(r.st.registry, f.uuid, f.jti)

\* A login has just succeeded: the pair it returned is held by the client
\* and the refresh jti is registered.
C1_Witness ==
    /\ last = [op |-> "login", out |-> "ok"]
    /\ \E a, f \in issued :
           /\ a.type = "access" /\ f.type = "refresh"
           /\ a.jti = nextJti - 1 /\ f.jti = nextJti - 2
           /\ a.refresh_jti = f.jti
           /\ InList(registry, f.uuid, f.jti)

\* C2: revocation gate.  A token whose jti has an unexpired blocklist entry
\* never passes request-time validation: get_current_user does not return
\* the user and check_jwt does not let the post be created; when the
\* token's signature and expiry are valid the outcome is the token-revoked
\* one ("Token was blocked") in both.
C2_RevocationGate ==
    \A t \in Presentable :
        HasBlockEntry(blocklist, t.jti, now) =>
            /\ get_current_user(Cur, t) # "ok"
            /\ check_jwt(Cur, t) # "ok"
            /\ read_user_me(Cur, t).out # "ok"
            /\ post_create(Cur, t).out # "ok"
            /\ post_create(Cur, t).st = Cur
            /\ update_user_me(Cur, t, None, None).st = Cur
            /\ Live(t) =>
                   /\ get_current_user(Cur, t) = "401 Token was blocked"
                   /\ check_jwt(Cur, t) = "403 Token was blocked"

\* A request with a blocked access token, still valid by signature and
\* expiry, has just been turned down as revoked.
C2_Witness ==
    /\ last.op \in {"read_user_me", "post_create"}
    /\ last.out \in {"401 Token was blocked", "403 Token was blocked"}
    /\ \E t \in issued :
           t.type = "access" /\ Live(t) /\ HasBlockEntry(blocklist, t.jti, now)

\* Two sessions of one user: access tokens a and b from two logins, both
\* valid, neither blocked, each with its refresh jti in the registry.
TwoDevices(a, b) ==
    /\ a.type = "access" /\ b.type = "access"
    /\ a.uuid = b.uuid /\ a.refresh_jti # b.refresh_jti
    /\ Live(a) /\ Live(b)
    /\ ~HasBlockEntry(blocklist, a.jti, now)
    /\ ~HasBlockEntry(blocklist, b.jti, now)
    /\ InList(registry, a.uuid, a.refresh_jti)
    /\ InList(registry, b.uuid, b.refresh_jti)

Revoked(S, t) ==
    /\ get_current_user(S, t) = "401 Token was blocked"
    /\ check_jwt(S, t) = "403 Token was blocked"

\* C3: multi-device isolation.  With devices A and B of one user logged in,
\* logout with A's access token removes A's refresh jti from the user's
\* registry, leaves B's there and shortens the list by one; logout_all
\* with B's access token after it empties the user's registry, and both
\* access tokens are then turned down as revoked.
C3_MultiDeviceIsolation ==
    \A a, b \in issued :
        TwoDevices(a, b) =>
            LET r1 == logout(Cur, a)
                r2 == logout_all(r1.st, b)
            IN  /\ r1.out = "ok"
                /\ ~InList(r1.st.registry, a.uuid, a.refresh_jti)
                /\ InList(r1.st.registry, b.uuid, b.refresh_jti)
                /\ Len(r1.st.registry[a.uuid]) = Len(registry[a.uuid]) - 1
                /\ Revoked(r1.st, a)
                /\ get_current_user(r1.st, b) # "401 Token was blocked"
                /\ r2.out = "ok"
                /\ r2.st.registry[a.uuid] = <<>>
                /\ Revoked(r2.st, a)
                /\ Revoked(r2.st, b)

\* The scenario half way: after two logins of one user the logout of
\* device A has just been served; only A's access jti is blocked and the
\* registry holds exactly B's refresh jti.
C3_Witness ==
    /\ last = [op |-> "logout", out |-> "ok"]
    /\ \E a, b \in issued :
           /\ a.type = "access" /\ b.type = "access" /\ a.uuid = b.uuid
           /\ Live(a) /\ Live(b)
           /\ \A e \in blocklist : e.key = [kind |-> "jti", id |-> a.jti]
           /\ HasBlockEntry(blocklist, a.jti, now)
           /\ registry[b.uuid] = <<b.refresh_jti>>
           /\ a.refresh_jti # b.refresh_jti
           /\ logout_all(Cur, b).st.registry[b.uuid] = <<>>

\* The refresh jti of the session a token belongs to: the refresh_jti claim
\* of an access token, the jti of a refresh token.
SessionJti(t) == IF t.type = "access" THEN t.refresh_jti ELSE t.jti

TokenInvalid == "403 could not validate credentials"
\* an outcome of the error taxonomy that no handler of the code produces
SessionNotFound == "session not found"

\* C4: refresh rotation registers the replacement.  After every successful
\* refresh the jti of the returned refresh token is in the registry of the
\* token's user, the consumed jti is not, and the returned access token's
\* refresh_jti is the returned refresh token's jti.
C4_RefreshRegistersReplacement ==
    \A t \in Presentable :
        LET r == refresh_token(Cur, t) IN
        r.out = "ok" =>
            \E a, f \in r.ret :
                /\ a.type = "access" /\ f.type = "refresh"
                /\ a.refresh_jti = f.jti
                /\ ~InList(r.st.registry, t.uuid, SessionJti(t))
                /\ InList(r.st.registry, t.uuid, f.jti)

\* C5: refresh with a valid, unexpired access token obtained from login
\* (its session is in the registry) succeeds, and what it removes from the
\* user's registry is the token's refresh_jti and nothing else.
C5_RefreshWithAccessToken ==
    \A t \in issued :
        (t.type = "access" /\ Live(t) /\ InList(registry, t.uuid, t.refresh_jti)) =>
            LET r == refresh_token(Cur, t) IN
            /\ r.out = "ok"
            /\ ~InList(r.st.registry, t.uuid, t.refresh_jti)
            /\ \A j \in Elems(registry[t.uuid]) \ {t.refresh_jti} :
                   Count(r.st.registry[t.uuid], j) = Count(registry[t.uuid], j)

\* C6: one-shot refresh.  Once refresh(t) has succeeded, every later
\* refresh(t) fails as session-not-found or token-invalid and leaves the
\* registry and the blocklist as they were.
C6_OneShotRefresh ==
    \A t \in refreshed :
        LET r == refresh_token(Cur, t) IN
        /\ r.out \in {SessionNotFound, TokenInvalid}
        /\ r.st.registry = registry
        /\ r.st.blocklist = blocklist

\* What the code does give for C6: a later refresh(t) never succeeds and
\* writes nothing; it ends in the unhandled ValueError of list.index.
RefreshedStaysConsumed ==
    \A t \in refreshed :
        LET r == refresh_token(Cur, t) IN
        /\ r.out \in {"500 ValueError", TokenInvalid}
        /\ r.st = Cur

\* C7: logout is idempotent on the state.  For every token, the blocklist
\* and the registry after two logouts with it are those after one; for an
\* access token that is valid, after one logout its jti is blocked, its
\* refresh_jti is not in the user's registry, every other entry of that
\* registry is still there as often as before, and the other users'
\* registries are untouched.
C7_LogoutIdempotent ==
    \A t \in Presentable :
        LET once == logout(Cur, t).st
            twice == logout(once, t).st
        IN  /\ twice.blocklist = once.blocklist
            /\ twice.registry = once.registry
            /\ twice = once
            /\ (t.type = "access" /\ Live(t)) =>
                   /\ HasBlockEntry(once.blocklist, t.jti, now)
                   /\ ~InList(once.registry, t.uuid, t.refresh_jti)
                   /\ \A j \in Elems(registry[t.uuid]) \ {t.refresh_jti} :
                          Count(once.registry[t.uuid], j) = Count(registry[t.uuid], j)
                   /\ Elems(once.registry[t.uuid]) \subseteq Elems(registry[t.uuid])
                   /\ \A u \in UUIDs \ {t.uuid} : once.registry[u] = registry[u]

\* A second logout with the same access token has just been served: the
\* first one removed the session, this one found it gone, and another
\* session of the user is still registered.
C7_Witness ==
    /\ last = [op |-> "logout", out |-> "500 ValueError"]
    /\ \E t \in issued :
           /\ t.type = "access" /\ Live(t)
           /\ \A e \in blocklist : e.key = [kind |-> "jti", id |-> t.jti]
           /\ HasBlockEntry(blocklist, t.jti, now)
           /\ ~InList(registry, t.uuid, t.refresh_jti)
           /\ \E f \in issued : f.type = "refresh" /\ f.jti = t.refresh_jti
           /\ registry[t.uuid] # <<>>

\* C8: refresh with a token that is expired, badly signed or malformed
\* fails as token-invalid and writes nothing.
C8_RefreshRejectsInvalid ==
    \A t \in Presentable :
        (t.type = "garbage" \/ ~t.sig \/ now >= t.exp) =>
            refresh_token(Cur, t) = Res(Cur, TokenInvalid, {})

\* A refresh with an expired access token whose session is still in the
\* registry has just been turned down.
C8_Witness ==
    /\ last = [op |-> "refresh", out |-> TokenInvalid]
    /\ \E t \in issued :
           /\ t.type = "access" /\ now >= t.exp
           /\ InList(registry, t.uuid, t.refresh_jti)

\* C9: a login with an unknown username and a login with a known username
\* and a wrong password end in the same error, return no token and change
\* nothing.
C9_LoginFailureUniform ==
    \A c1, c2 \in LoginInputs :
        (~KnownName(c1[1]) /\ KnownName(c2[1]) /\ ~GoodLogin(c2[1], c2[2])) =>
            /\ login(Cur, c1[1], c1[2]) = Res(Cur, BadCredentials, {})
            /\ login(Cur, c2[1], c2[2]) = Res(Cur, BadCredentials, {})
            /\ login(Cur, c1[1], c1[2]).out = login(Cur, c2[1], c2[2]).out

\* A login has just failed in a state where some username is unknown and
\* some user exists, with tokens of earlier logins around.
C9_Witness ==
    /\ last = [op |-> "login", out |-> BadCredentials]
    /\ \E n \in Names : ~KnownName(n)
    /\ \E n \in Names : KnownName(n) /\ ~GoodLogin(n, WrongPassword)
    /\ issued # {}

\* C10: after a successful update_user_me with access token t the blocklist
\* holds an unexpired entry under t's jti, and validating t afterwards
\* (get_current_user, check_jwt) fails as revoked.
C10_UpdateBlocksToken ==
    \A t \in Presentable, n \in Names \cup {None}, e \in Emails \cup {None} :
        LET r == update_user_me(Cur, t, n, e) IN
        r.out = "ok" =>
            /\ HasBlockEntry(r.st.blocklist, t.jti, now)
            /\ get_current_user(r.st, t) = "401 Token was blocked"
            /\ check_jwt(r.st, t) = "403 Token was blocked"

Patches == (Names \cup {None}) \X (Emails \cup {None})

\* C11: update_user_me leaves the refresh-token registry as it was: for
\* every bearer token and every patch the registry list of every user is
\* the same after the request as before it, the lists of the acting
\* user's other devices included.
C11_UpdateKeepsRegistry ==
    \A t \in Presentable, pt \in Patches :
        \A u \in UUIDs :
            update_user_me(Cur, t, pt[1], pt[2]).st.registry[u] = registry[u]

\* A profile update has just been served for a user who has a session
\* registered: the session is still there.
C11_Witness ==
    /\ last = [op |-> "update_user_me", out |-> "ok"]
    /\ \E e \in blocklist : e.key.kind = "jwt"
    /\ \E t \in issued :
           /\ t.type = "access" /\ t.jti = nextJti - 1
           /\ registry[t.uuid] # <<>>

\* both requests in flight have returned (or raised)
RaceOver == \A i \in 1..2 : race.proc[i].pc \in {"done", "raised"}
RaceKinds(k1, k2) ==
    /\ race.proc # <<>>
    /\ race.proc[1].kind = k1
    /\ race.proc[2].kind = k2

\* C12: a remove_refresh_token(user, A) and an add_refresh_token of jti B
\* for the same user, interleaved in any way: once both have completed,
\* B is in the user's registry.
C12_RemoveAgainstAddKeepsAdded ==
    (RaceKinds("remove", "add") /\ RaceOver) =>
        InList(registry, RaceUser, race.proc[2].jti)

\* C13: two logouts of two devices of one user, remove_refresh_token(A)
\* and remove_refresh_token(B), interleaved in any way: once both have
\* completed neither A nor B is in the user's registry and every other
\* entry that was there still is.
C13_TwoRemovesRemoveBoth ==
    (RaceKinds("remove", "remove") /\ RaceOver) =>
        /\ ~InList(registry, RaceUser, race.proc[1].jti)
        /\ ~InList(registry, RaceUser, race.proc[2].jti)
        /\ \A j \in Elems(race.init) \ {race.proc[1].jti, race.proc[2].jti} :
               InList(registry, RaceUser, j)

\* the tokens a client can present that jwt.decode rejects: a non-token, a
\* broken signature, an expiry that has passed
BadToken(t) == ~(t.type \in {"access", "refresh"} /\ t.sig /\ now < t.exp)

\* an entry of the blocklist, under either kind of key, for the token t
EntryOf(e, t) == e.key.id = t.jti

C15_RemoveAbsentIsNoop ==
    \A t \in issued :
        (t.type = "access" /\ Live(t)
         /\ ~InList(registry, t.uuid, t.refresh_jti)) =>
            /\ ~RemoveRaises(registry, t.uuid, t.refresh_jti)
            /\ logout(Cur, t).out = "ok"
            /\ logout(Cur, t).st.registry = registry

\* C16: a token with a wrong signature, a malformed token or an expired
\* token is reported as token-invalid by get_current_user and by check_jwt
\* alike, the handled 403, and the request changes no state.
C16_BadTokenIsTokenInvalid ==
    \A t \in Presentable :
        BadToken(t) =>
            /\ get_current_user(Cur, t) = "403 Could not validate credentials"
            /\ check_jwt(Cur, t) = "403 Could not validate credentials"
            /\ read_user_me(Cur, t).st = Cur
            /\ post_create(Cur, t).st = Cur

\* C17: refresh has no partial effects: whenever a refresh fails, at
\* whatever step, every user's registry is as it was before the call.
C17_RefreshNoPartialEffects ==
    \A t \in Presentable :
        LET r == refresh_token(Cur, t) IN
        r.out # "ok" => r.st.registry = registry

\* C18: refresh does not consult the blocklist: with an access token that
\* is live and whose jti is blocked, refresh succeeds and returns a new
\* access token and a new refresh token.
C18_BlockedTokenRefreshes ==
    \A t \in issued :
        (t.type = "access" /\ Live(t) /\ HasBlockEntry(blocklist, t.jti, now)) =>
            LET r == refresh_token(Cur, t) IN
            /\ r.out = "ok"
            /\ \E a, f \in r.ret :
                   /\ a.type = "access" /\ f.type = "refresh"
                   /\ a.jti >= nextJti /\ f.jti >= nextJti

\* C19: a blocked access token changes nothing: logout, logout_all,
\* update_user_me, post_create and read_user_me, called with an access
\* token whose jti is blocked, are rejected and leave the blocklist, the
\* registry and the tables as they were.
C19_BlockedTokenChangesNothing ==
    \A t \in issued :
        (t.type = "access" /\ Live(t) /\ HasBlockEntry(blocklist, t.jti, now)) =>
            \A r \in {logout(Cur, t), logout_all(Cur, t), post_create(Cur, t),
                      read_user_me(Cur, t)}
                     \cup {update_user_me(Cur, t, pt[1], pt[2]) : pt \in Patches} :
                /\ r.out # "ok"
                /\ r.st = Cur

\* C20: a remove_all_refresh_tokens(user) interleaved in any way with an
\* add_refresh_token for the same user: once it has completed, no jti that
\* was in the user's registry when it started is still there.
C20_LogoutAllAgainstLogin ==
    (RaceKinds("clean", "add") /\ race.proc[1].pc = "done") =>
        \A j \in Elems(race.proc[1].start) : ~InList(registry, RaceUser, j)

\* C21: only access tokens pass request-time validation: a live token of
\* type refresh is accepted neither by get_current_user nor by check_jwt,
\* so a post_create with it is rejected and adds no post, the refresh
\* token of a session that has logged out included.
C21_RefreshTokenNeverAuthorizes ==
    \A t \in issued :
        (t.type = "refresh" /\ Live(t)) =>
            /\ get_current_user(Cur, t) # "ok"
            /\ check_jwt(Cur, t) # "ok"
            /\ post_create(Cur, t).out # "ok"
            /\ post_create(Cur, t).st.posts = posts

\* C22: update_user_me on one device leaves the other devices' access
\* tokens valid: when device a's update succeeds, a live, unblocked access
\* token b of the same user that passed get_current_user before still
\* passes it afterwards and yields the same user.
C22_UpdateKeepsOtherDevices ==
    \A a, b \in issued, pt \in Patches :
        (/\ a.type = "access" /\ b.type = "access"
         /\ a.jti # b.jti /\ a.uuid = b.uuid
         /\ Live(a) /\ Live(b)
         /\ ~HasBlockEntry(blocklist, b.jti, now)
         /\ users[b.uuid].exists /\ users[b.uuid].username = b.username
         /\ update_user_me(Cur, a, pt[1], pt[2]).out = "ok") =>
            LET S == update_user_me(Cur, a, pt[1], pt[2]).st IN
            /\ get_current_user(S, b) = "ok"
            /\ CurrentUser(S, b) = b.uuid
====
